---- MODULE Spec2Model ----
(***************************************************************************)
(* Bluesky self-follow tool (src/main.py): the interactive loop of main,   *)
(* login_flow with its two login attempts, the handle resolution cascade,  *)
(* the DID document fetch, the endpoint extraction and the record write.   *)
(*                                                                         *)
(* Python strings are sequences of one-character strings, so that strip,   *)
(* startswith, split and rstrip are computed as the code computes them.    *)
(* None is the one-element sequence <<"<None>">>, which is no string.      *)
(***************************************************************************)
EXTENDS Integers, Sequences, FiniteSets, TLC

\* ------------------------------------------------------------------------
\* Bounds
\* ------------------------------------------------------------------------
\* Number of times the while-loop of main may be entered.
MaxIter == 2

\* ------------------------------------------------------------------------
\* Python values
\* ------------------------------------------------------------------------
None == <<"<None>">>
\* A JSON value that is not a string (an object used as serviceEndpoint).
NonStr == <<"<obj>">>

IsStr(v) == v # None /\ v # NonStr

\* Python truthiness of an Optional[str]
Truthy(v) == v # None /\ v # <<>>

\* a or b
Or(a, b) == IF Truthy(a) THEN a ELSE b

StartsWith(s, p) == Len(s) >= Len(p) /\ SubSeq(s, 1, Len(p)) = p

EndsWith(s, p) == Len(s) >= Len(p) /\ SubSeq(s, Len(s) - Len(p) + 1, Len(s)) = p

\* c in s, for a one-character c
Contains(s, c) == \E i \in 1..Len(s) : s[i] = c

\* s.count(c)
Count(s, c) == Cardinality({i \in 1..Len(s) : s[i] = c})

\* index of the first c in s (s contains c)
FirstIndex(s, c) == CHOOSE i \in 1..Len(s) : s[i] = c /\ \A j \in 1..(i - 1) : s[j] # c

\* s.split(c, 1): a list of one or two strings
Split1(s, c) ==
    IF Contains(s, c)
    THEN <<SubSeq(s, 1, FirstIndex(s, c) - 1), SubSeq(s, FirstIndex(s, c) + 1, Len(s))>>
    ELSE <<s>>

Whitespace == {" "}

\* s.strip()
Strip(s) ==
    LET keep == {i \in 1..Len(s) : s[i] \notin Whitespace}
    IN  IF keep = {} THEN <<>>
        ELSE SubSeq(s, CHOOSE i \in keep : \A j \in keep : i <= j,
                       CHOOSE i \in keep : \A j \in keep : i >= j)

\* s.rstrip(c)
RStrip(s, c) ==
    LET keep == {i \in 1..Len(s) : s[i] # c}
    IN  IF keep = {} THEN <<>>
        ELSE SubSeq(s, 1, CHOOSE i \in keep : \A j \in keep : i >= j)

\* s.replace(a, b) for one-character a and b
Replace(s, a, b) == [i \in 1..Len(s) |-> IF s[i] = a THEN b ELSE s[i]]

\* ------------------------------------------------------------------------
\* String literals of the program
\* ------------------------------------------------------------------------
At == <<"@">>
DidPrefix == <<"d", "i", "d", ":">>
DidWebPrefix == <<"d", "i", "d", ":", "w", "e", "b", ":">>
DidPlcPrefix == <<"d", "i", "d", ":", "p", "l", "c">>
BskySuffix == <<".", "b", "s", "k", "y", ".", "s", "o", "c", "i", "a", "l">>
PdsMarker == <<"#", "a", "t", "p", "r", "o", "t", "o", "_", "p", "d", "s">>
Http == <<"h", "t", "t", "p">>
Xrpc == <<"/", "x", "r", "p", "c">>
DidEq == <<"d", "i", "d", "=">>
Quote == <<"\"">>
FollowCollection == "app.bsky.graph.follow"

\* ------------------------------------------------------------------------
\* HandleNormalizer
\* ------------------------------------------------------------------------
strip_at(h) == IF StartsWith(h, At) THEN SubSeq(h, 2, Len(h)) ELSE h

maybe_assume_bsky(handle) ==
    IF StartsWith(handle, DidPrefix) THEN handle
    ELSE IF ~Contains(handle, ".") THEN handle \o BskySuffix
    ELSE handle

\* lines 246-249 with the suffix appended to every input
NormalizeInputAlways(raw) == Strip(raw) \o BskySuffix

\* login_flow, lines 240-251: the identifier used for login and resolution
\* (input_val after the bare-username assumption), for a non-empty input.
NormalizeInput(raw) ==
    LET input_val == Strip(raw)
    IN  IF ~StartsWith(input_val, DidPrefix) /\ ~Contains(input_val, ".")
        THEN maybe_assume_bsky(input_val)
        ELSE input_val

\* ------------------------------------------------------------------------
\* HandleResolver: the pure part of each strategy
\* ------------------------------------------------------------------------
\* An exception raised by a subscript out of range.
IndexError == <<"<IndexError>">>

\* resolve_handle_via_dns, lines 56-60: the name queried under _atproto.
DnsName(handle) ==
    IF Count(handle, ".") >= 1 /\ ~StartsWith(handle, DidPrefix)
    THEN Split1(strip_at(handle), ".")[2]
    ELSE strip_at(handle)

\* resolve_handle_via_dns, lines 66-71: one TXT answer, or None when it holds
\* no did= token.
DnsText(ans) ==
    LET t0 == Strip(ans)
        t1 == IF StartsWith(t0, Quote) /\ EndsWith(t0, Quote)
              THEN SubSeq(t0, 2, Len(t0) - 1) ELSE t0
    IN  IF StartsWith(t1, DidEq) THEN Strip(Split1(t1, "=")[2]) ELSE None

\* resolve_handle_via_dns, lines 65-72: the first answer with a did= token.
RECURSIVE DnsParse(_)
DnsParse(answers) ==
    IF answers = <<>> THEN None
    ELSE IF DnsText(Head(answers)) # None THEN DnsText(Head(answers))
    ELSE DnsParse(Tail(answers))

\* resolve_handle_via_well_known, lines 78-84: the domain fetched, or
\* IndexError when the part before the first "/" holds no ".".
WellKnownDomain(handle) ==
    LET raw == strip_at(handle)
    IN  IF Contains(raw, "/")
        THEN IF Contains(raw, ".")
             THEN LET parts == Split1(Split1(raw, "/")[1], ".")
                  IN  IF Len(parts) < 2 THEN IndexError ELSE parts[2]
             ELSE raw
        ELSE IF Contains(raw, ".") THEN Split1(raw, ".")[2] ELSE raw

\* ------------------------------------------------------------------------
\* DID documents
\* ------------------------------------------------------------------------
\* A service descriptor; a key that is absent holds None.
Svc(id, ep, epURL) == [id |-> id, serviceEndpoint |-> ep, serviceEndpointURL |-> epURL]

\* A JSON object: keys is the set of its keys, service and services the lists
\* under those keys (<<>> when the key is absent).
Doc(keys, service, services) ==
    [py |-> "dict", keys |-> keys, service |-> service, services |-> services]

NoDoc == [py |-> "None", keys |-> {}, service |-> <<>>, services |-> <<>>]

\* not did_doc, negated
DocTruthy(d) == d.py = "dict" /\ d.keys # {}

\* did_doc.get("service") or did_doc.get("services") or []
ServiceList(d) ==
    IF "service" \in d.keys /\ d.service # <<>> THEN d.service
    ELSE IF "services" \in d.keys /\ d.services # <<>> THEN d.services
    ELSE <<>>

\* line 189
IdMatches(sid, did) ==
    EndsWith(sid, PdsMarker) \/ sid = PdsMarker \/ sid = did \o PdsMarker

\* line 190
MarkerEndpoint(s) == Or(Or(s.serviceEndpoint, s.serviceEndpointURL), s.serviceEndpoint)

\* line 195
FallbackEndpoint(s) == Or(s.serviceEndpoint, s.serviceEndpointURL)

\* s.get("id", "")
SvcId(s) == IF s.id = None THEN <<>> ELSE s.id

\* lines 187-192 with the endpoint returned as it stands
RECURSIVE MarkerScanNoStrip(_, _)
MarkerScanNoStrip(svc, did) ==
    IF svc = <<>> THEN None
    ELSE LET s  == Head(svc)
             ep == MarkerEndpoint(s)
         IN  IF IdMatches(SvcId(s), did) /\ IsStr(ep) /\ ep # <<>>
             THEN ep
             ELSE MarkerScanNoStrip(Tail(svc), did)

\* lines 187-192
RECURSIVE MarkerScan(_, _)
MarkerScan(svc, did) ==
    IF svc = <<>> THEN None
    ELSE LET s  == Head(svc)
             ep == MarkerEndpoint(s)
         IN  IF IdMatches(SvcId(s), did) /\ IsStr(ep) /\ ep # <<>>
             THEN RStrip(ep, "/")
             ELSE MarkerScan(Tail(svc), did)

\* lines 194-197
RECURSIVE FallbackScan(_)
FallbackScan(svc) ==
    IF svc = <<>> THEN None
    ELSE LET ep == FallbackEndpoint(Head(svc))
         IN  IF IsStr(ep) /\ StartsWith(ep, Http)
             THEN RStrip(ep, "/")
             ELSE FallbackScan(Tail(svc))

\* lines 187-198 with the two scans in the other order
extract_pds_fallback_first(did_doc, did) ==
    LET svc == ServiceList(did_doc)
    IN  IF svc = <<>> THEN None
        ELSE IF FallbackScan(svc) # None THEN FallbackScan(svc)
        ELSE MarkerScan(svc, did)

extract_pds_from_did_doc(did_doc, did) ==
    LET svc == ServiceList(did_doc)
    IN  IF svc = <<>> THEN None
        ELSE IF MarkerScan(svc, did) # None THEN MarkerScan(svc, did)
        ELSE FallbackScan(svc)

\* fetch_did_document: the branch taken for a DID
DidMethod(did) ==
    IF StartsWith(did, DidWebPrefix) THEN "web"
    ELSE IF StartsWith(did, DidPlcPrefix) THEN "plc"
    ELSE "other"

\* fetch_did_document, lines 145-146: the domain of a did:web
DidWebDomain(did) == Replace(SubSeq(did, Len(DidWebPrefix) + 1, Len(did)), ":", "/")

\* An HTTP response to a document request: a transport error, a non-200
\* status, or a 200 whose JSON body is the object `body`, which holds the
\* document under "didDocument" when `wrapped`.
Response(kind, wrapped, body) == [kind |-> kind, wrapped |-> wrapped, body |-> body]

\* r.json() of a 200 response
Payload(r) ==
    IF r.wrapped THEN Doc({"didDocument"}, <<>>, <<>>) ELSE r.body

\* fetch_did_document, the value returned for a response
FetchResult(did, r) ==
    IF r.kind # "200" THEN NoDoc
    ELSE IF DidMethod(did) \in {"web", "plc"} THEN Payload(r)
    ELSE IF "didDocument" \in Payload(r).keys THEN r.body
    ELSE NoDoc

\* try_login, lines 210-218: the base URL the Client is built with
ClientBase(client_base_url) ==
    IF Truthy(client_base_url)
    THEN IF ~EndsWith(client_base_url, Xrpc)
         THEN RStrip(client_base_url, "/") \o Xrpc
         ELSE client_base_url
    ELSE None

\* ------------------------------------------------------------------------
\* Inputs and outcomes of the external calls
\* ------------------------------------------------------------------------
Alice == <<"a", "l", "i", "c", "e">>
AliceBsky == Alice \o BskySuffix
BobIo == <<"b", "o", "b", ".", "i", "o">>
DidPlcXyz == <<"d", "i", "d", ":", "p", "l", "c", ":", "x", "y", "z">>
DidWebWIo == <<"d", "i", "d", ":", "w", "e", "b", ":", "w", ".", "i", "o">>
DidKeyZ == <<"d", "i", "d", ":", "k", "e", "y", ":", "z">>
\* the DID the server reports for the authenticated account
DidPlcMe == <<"d", "i", "d", ":", "p", "l", "c", ":", "m", "e">>
HttpsPIo == <<"h", "t", "t", "p", "s", ":", "/", "/", "p", ".", "i", "o">>
HttpQIo == <<"h", "t", "t", "p", ":", "/", "/", "q", ".", "i", "o">>

\* What the user may type at the handle prompt.
RawInputs ==
    { Alice,
      At \o Alice,
      <<" ">> \o BobIo \o <<" ">>,
      At \o BobIo,
      DidPlcXyz,
      DidWebWIo,
      DidKeyZ,
      <<" ">>,
      <<"a", "/", "b", ".", "c">>,
      <<"b", "o", "b", ".">> }

\* What the user may type at the password prompt.
RawPasswords == { <<>>, <<" ">>, <<"p", "w", " ">> }

\* The DID fields of a successful login: client.me.did and the "did" of the
\* profile that login returned, each possibly absent.
ReportedDids == {None, DidPlcMe}

\* TXT answers of _atproto.<name>
DnsAnswers ==
    { <<>>,
      << <<"v", "=", "x">>, Quote \o DidEq \o DidPlcXyz \o Quote >>,
      << DidEq \o DidWebWIo, DidEq \o DidPlcXyz >>,
      << DidEq >> }

\* Bodies of a 200 response of /.well-known/atproto-did
WellKnownBodies == { DidPlcXyz \o <<" ">>, DidKeyZ, <<" ">>, <<"o", "o", "p", "s">> }

\* data.get("did") of a 200 response of the public resolver
PublicDids == { DidKeyZ, DidWebWIo, None, <<>> }

DocPds ==
    Doc({"id", "service"},
        << Svc(<<"#", "x">>, HttpQIo, None),
           Svc(DidPlcXyz \o PdsMarker, HttpsPIo \o <<"/">>, None) >>, <<>>)
DocFallback ==
    Doc({"id", "services"}, <<>>,
        << Svc(None, None, <<"x">>), Svc(<<"#", "x">>, None, HttpQIo \o <<"/">>) >>)
DocXrpc ==
    Doc({"id", "service"}, << Svc(PdsMarker, HttpsPIo \o Xrpc, None) >>, <<>>)
DocNonStr ==
    Doc({"id", "service"}, << Svc(PdsMarker, NonStr, None), Svc(<<"#", "x">>, <<"x">>, None) >>, <<>>)
DocMarkerNoUrl ==
    Doc({"id", "service"}, << Svc(PdsMarker, NonStr, None), Svc(<<"#", "x">>, HttpQIo, None) >>, <<>>)
DocNoService == Doc({"id"}, <<>>, <<>>)
DocEmptyList == Doc({"id", "service"}, <<>>, <<>>)
DocEmpty == Doc({}, <<>>, <<>>)

Docs ==
    {DocPds, DocFallback, DocXrpc, DocNonStr, DocMarkerNoUrl, DocNoService, DocEmptyList, DocEmpty}

Responses ==
    { Response("error", FALSE, NoDoc), Response("non200", FALSE, NoDoc) }
    \cup { Response("200", w, d) : w \in BOOLEAN, d \in Docs }

\* The outcome of dns.resolver.resolve: an exception, or the answers
DnsOutcomes ==
    { [raised |-> TRUE, answers |-> <<>>] }
    \cup { [raised |-> FALSE, answers |-> a] : a \in DnsAnswers }

\* The outcome of an HTTP GET of a resolution strategy: a transport error, a
\* status other than 200, or a 200 with a body (r.text, or the "did" of
\* r.json()); NoRequest when the strategy returns before any request.
HttpOutcome(kind, body) == [kind |-> kind, body |-> body]

NoRequest == HttpOutcome("none", None)

WellKnownOutcomes ==
    { HttpOutcome("error", None), HttpOutcome("non200", None) }
    \cup { HttpOutcome("200", b) : b \in WellKnownBodies }

PublicOutcomes ==
    { HttpOutcome("error", None), HttpOutcome("non200", None) }
    \cup { HttpOutcome("200", b) : b \in PublicDids }

\* A successful login reports client.me.did and the profile's "did".
LoginOutcomes ==
    { [ok |-> FALSE, me |-> None, profile |-> None] }
    \cup { [ok |-> TRUE, me |-> m, profile |-> p] : m \in ReportedDids, p \in ReportedDids }

\* ------------------------------------------------------------------------
\* State
\* ------------------------------------------------------------------------
VARIABLES
    pc,            \* the statement main (or login_flow under it) is at
    iter,          \* number of times the loop body of main was entered
    dnsAvailable,  \* dns is not None (the dns.resolver import succeeded)
    handle,        \* main: handle
    input_val,     \* login_flow: input_val
    app_password,  \* login_flow: app_password
    did,           \* login_flow: did (resolve_handle_to_did: did)
    did_doc,       \* login_flow: did_doc
    pds_host,      \* login_flow: pds_host
    client,        \* the Client of the session, NoClient when there is none
    user_did,      \* the DID login_flow returned with the client
    calls,         \* the external calls of this loop iteration, in order
    records,       \* the payloads given to create_record in this iteration
    open_sessions, \* sessions obtained and not yet given to client.logout()
    exit_status    \* the status of sys.exit, -1 while the process runs

vars == <<pc, iter, dnsAvailable, handle, input_val, app_password, did, did_doc,
          pds_host, client, user_did, calls, records, open_sessions, exit_status>>

\* line 251
identifier_for_login == input_val

Client(base, identifier, password, me, profile) ==
    [ok |-> TRUE, base |-> base, identifier |-> identifier, password |-> password,
     me_did |-> me, profile_did |-> profile]

NoClient ==
    [ok |-> FALSE, base |-> None, identifier |-> None, password |-> None,
     me_did |-> None, profile_did |-> None]

\* One external call: the operation, its argument, the host or branch it
\* went to, and what it gave back.
Call(op, arg, host, res) == [op |-> op, arg |-> arg, host |-> host, res |-> res]

Ok == <<"ok">>
Failed == <<"failed">>

\* try_login, lines 209-232
try_login(client_base_url, identifier, password, outcome) ==
    IF outcome.ok
    THEN Client(ClientBase(client_base_url), identifier, password, outcome.me, outcome.profile)
    ELSE NoClient

\* lines 254-256 without the check of the password
AfterGetPassNoCheck(pw) == "login_default"

\* login_flow, lines 253-256: where the password prompt goes on, for the
\* trimmed password
AfterGetPass(pw) == IF pw = <<>> THEN "try_another_handle" ELSE "login_default"

\* login_flow, lines 263-271: the DID returned after a default-host login
DefaultUserDid(me, profile, identifier) ==
    LET u0 == Or(me, profile)
        u1 == IF ~Truthy(u0) THEN profile ELSE u0
    IN  Or(u1, identifier)

\* line 307 without the fallback to the resolved DID
PdsUserDidNoFallback(me, resolved) == me

\* login_flow, line 307: the DID returned after a login at the PDS
PdsUserDid(me, resolved) == Or(me, resolved)

\* lines 278-282 without the branch for a DID input
AfterDefaultFailureNoBypass(val, dnsOk) ==
    IF dnsOk THEN "resolve_dns" ELSE "resolve_well_known"

\* login_flow, lines 278-282, and resolve_handle_to_did, line 122: where a
\* failed default-host login goes on
AfterDefaultFailure(val, dnsOk) ==
    IF StartsWith(val, DidPrefix) THEN "fetch_did_document"
    ELSE IF dnsOk THEN "resolve_dns"
    ELSE "resolve_well_known"

\* login_flow, lines 284-286: the check of the DID that resolution returned
AfterResolved(d) == IF ~Truthy(d) THEN "try_another_handle" ELSE "fetch_did_document"

\* lines 127-130 without the early return
AfterDnsNoReturn(d) == "resolve_well_known"

\* resolve_handle_to_did, lines 127-130
AfterDns(d) == IF Truthy(d) THEN AfterResolved(d) ELSE "resolve_well_known"

\* resolve_handle_to_did, lines 131-134
AfterWellKnown(d) == IF Truthy(d) THEN AfterResolved(d) ELSE "resolve_public"

\* lines 292-302 without the check of pds_host
AfterFetchNoHostCheck(doc, host) ==
    IF ~DocTruthy(doc) THEN "try_another_handle" ELSE "login_pds"

\* login_flow, lines 292-302
AfterFetch(doc, host) ==
    IF ~DocTruthy(doc) THEN "try_another_handle"
    ELSE IF ~Truthy(host) THEN "try_another_handle"
    ELSE "login_pds"

\* lines 306-314 with a failed PDS login going back to the default attempt
AfterPdsLoginRetry(ok) == IF ok THEN "confirm_proceed" ELSE "login_default"

\* login_flow, lines 306-314, and main, lines 361-369
AfterPdsLogin(ok) == IF ok THEN "confirm_proceed" ELSE "try_another_handle"

\* lines 373-383 with the write made whatever the answer
AfterConfirmProceedAlways(yes) == "create_record"

\* main, lines 373-383
AfterConfirmProceed(yes) == IF yes THEN "create_record" ELSE "logout_declined"

\* lines 384-395 with the logout skipped after a failed write
AfterCreateRecordSkipLogout(ok) == IF ok THEN "logout_written" ELSE "follow_another"

\* lines 330-335 with the exception of create_record left to propagate
AfterCreateRecordFatal(ok) == IF ok THEN "logout_written" ELSE "crashed"

\* main, lines 384-391: the logout follows the write, whatever its result
AfterCreateRecord(ok) == "logout_written"

\* main, lines 374-378 and 390-395
AfterLogout(at) == IF at = "logout_declined" THEN "try_another_account" ELSE "follow_another"

\* follow_self, lines 322-329
FollowPayload(d) == [repo |-> d, collection |-> FollowCollection, subject |-> d]

TypeOK ==
    /\ pc \in {"input_handle", "getpass", "login_default", "resolve_dns",
               "resolve_well_known", "resolve_public", "fetch_did_document",
               "login_pds", "try_another_handle", "confirm_proceed",
               "logout_declined", "try_another_account", "create_record",
               "logout_written", "follow_another", "done", "interrupted", "crashed"}
    /\ iter \in 1..MaxIter
    /\ dnsAvailable \in BOOLEAN
    /\ open_sessions \in 0..MaxIter
    /\ exit_status \in {-1, 0, 1}

Init ==
    /\ pc = "input_handle"
    /\ iter = 1
    /\ dnsAvailable \in BOOLEAN
    /\ handle = None
    /\ input_val = None
    /\ app_password = None
    /\ did = None
    /\ did_doc = NoDoc
    /\ pds_host = None
    /\ client = NoClient
    /\ user_did = None
    /\ calls = <<>>
    /\ records = <<>>
    /\ open_sessions = 0
    /\ exit_status = -1

\* ------------------------------------------------------------------------
\* main and login_flow
\* ------------------------------------------------------------------------
\* lines 404-411 with the keyboard interrupt handled as any other exception
ExitStatusInterruptFails(how) == IF how = "done" THEN 0 ELSE 1

\* lines 400-411: the status the process exits with, by the way main ended:
\* sys.exit(0) after the loop, a KeyboardInterrupt, or any other exception
ExitStatus(how) == IF how = "crashed" THEN 1 ELSE 0

Running == pc \notin {"done", "interrupted", "crashed"}

\* main, lines 355-360, and login_flow, lines 240-251: the handle prompt; an
\* empty handle prompts again, any other is normalised and login_flow goes
\* on to the password prompt.
InputHandle ==
    /\ pc = "input_handle"
    /\ \E raw \in RawInputs :
         LET h == Strip(raw)
         IN  IF h = <<>>
             THEN UNCHANGED vars
             ELSE /\ handle' = h
                  /\ input_val' = IF Strip(h) = <<>> THEN Strip(h) ELSE NormalizeInput(h)
                  /\ pc' = IF Strip(h) = <<>> THEN "try_another_handle" ELSE "getpass"
                  /\ UNCHANGED <<iter, dnsAvailable, app_password, did, did_doc, pds_host,
                                 client, user_did, calls, records, open_sessions, exit_status>>

\* login_flow, lines 253-256: the password prompt
GetPass ==
    /\ pc = "getpass"
    /\ \E pw \in RawPasswords :
         /\ app_password' = Strip(pw)
         /\ pc' = AfterGetPass(Strip(pw))
    /\ UNCHANGED <<iter, dnsAvailable, handle, input_val, did, did_doc, pds_host,
                   client, user_did, calls, records, open_sessions, exit_status>>

\* login_flow, lines 258-282: the attempt against the default service
LoginDefault ==
    /\ pc = "login_default"
    /\ \E o \in LoginOutcomes :
         LET c == try_login(None, identifier_for_login, app_password, o)
         IN  /\ calls' = Append(calls, Call("login", identifier_for_login, ClientBase(None),
                                            IF c.ok THEN Ok ELSE Failed))
             /\ client' = c
             /\ IF c.ok
                THEN /\ user_did' = DefaultUserDid(c.me_did, c.profile_did, identifier_for_login)
                     /\ open_sessions' = open_sessions + 1
                     /\ pc' = "confirm_proceed"
                     /\ did' = did
                ELSE /\ pc' = AfterDefaultFailure(input_val, dnsAvailable)
                     /\ did' = IF StartsWith(input_val, DidPrefix) THEN input_val ELSE did
                     /\ UNCHANGED <<user_did, open_sessions>>
    /\ UNCHANGED <<iter, dnsAvailable, handle, input_val, app_password, did_doc, pds_host,
                   records, exit_status>>

\* resolve_handle_to_did, lines 119-128, with resolve_handle_via_dns
ResolveDns ==
    /\ pc = "resolve_dns"
    /\ \E o \in DnsOutcomes :
         LET d == IF o.raised THEN None ELSE DnsParse(o.answers)
         IN  /\ calls' = Append(calls, Call("dns", DnsName(strip_at(input_val)), <<>>, d))
             /\ did' = d
             /\ pc' = AfterDns(d)
    /\ UNCHANGED <<iter, dnsAvailable, handle, input_val, app_password, did_doc, pds_host,
                   client, user_did, records, open_sessions, exit_status>>

\* resolve_handle_to_did, lines 130-132, with resolve_handle_via_well_known:
\* the IndexError of line 82 is caught nowhere below the top level.
ResolveWellKnown ==
    /\ pc = "resolve_well_known"
    /\ LET domain == WellKnownDomain(strip_at(input_val))
       IN  IF domain = IndexError
           THEN /\ calls' = Append(calls, Call("well_known", domain, <<>>, IndexError))
                /\ pc' = "crashed"
                /\ exit_status' = ExitStatus("crashed")
                /\ did' = did
           ELSE /\ \E o \in (IF domain = <<>> THEN {NoRequest} ELSE WellKnownOutcomes) :
                     LET d == IF o.kind = "200" THEN Strip(o.body) ELSE None
                     IN  /\ calls' = Append(calls, Call("well_known", domain, <<>>, d))
                         /\ did' = d
                         /\ pc' = AfterWellKnown(d)
                /\ exit_status' = exit_status
    /\ UNCHANGED <<iter, dnsAvailable, handle, input_val, app_password, did_doc, pds_host,
                   client, user_did, records, open_sessions>>

\* resolve_handle_to_did, lines 134-135, with resolve_handle_public_api, and
\* login_flow, lines 284-286
ResolvePublic ==
    /\ pc = "resolve_public"
    /\ \E o \in PublicOutcomes :
         LET d == IF o.kind = "200" THEN o.body ELSE None
         IN  /\ calls' = Append(calls, Call("public", strip_at(strip_at(input_val)), <<>>, d))
             /\ did' = d
             /\ pc' = AfterResolved(d)
    /\ UNCHANGED <<iter, dnsAvailable, handle, input_val, app_password, did_doc, pds_host,
                   client, user_did, records, open_sessions, exit_status>>

\* login_flow, lines 288-302: fetch_did_document and extract_pds_from_did_doc
FetchDidDocument ==
    /\ pc = "fetch_did_document"
    /\ \E r \in Responses :
         LET doc  == FetchResult(did, r)
             host == IF DocTruthy(doc) THEN extract_pds_from_did_doc(doc, did) ELSE pds_host
         IN  /\ calls' = Append(calls, Call("fetch", did, <<DidMethod(did)>>, <<r.kind>>))
             /\ did_doc' = doc
             /\ pds_host' = host
             /\ pc' = AfterFetch(doc, host)
    /\ UNCHANGED <<iter, dnsAvailable, handle, input_val, app_password, did,
                   client, user_did, records, open_sessions, exit_status>>

\* login_flow, lines 304-314: the attempt against the discovered PDS
LoginPds ==
    /\ pc = "login_pds"
    /\ \E o \in LoginOutcomes :
         LET c == try_login(pds_host, identifier_for_login, app_password, o)
         IN  /\ calls' = Append(calls, Call("login", identifier_for_login, ClientBase(pds_host),
                                            IF c.ok THEN Ok ELSE Failed))
             /\ client' = c
             /\ pc' = AfterPdsLogin(c.ok)
             /\ IF c.ok
                THEN /\ user_did' = PdsUserDid(c.me_did, did)
                     /\ open_sessions' = open_sessions + 1
                ELSE UNCHANGED <<user_did, open_sessions>>
    /\ UNCHANGED <<iter, dnsAvailable, handle, input_val, app_password, did, did_doc,
                   pds_host, records, exit_status>>

\* `continue`: the loop body is entered again with fresh locals
ContinueLoop ==
    /\ iter < MaxIter
    /\ iter' = iter + 1
    /\ pc' = "input_handle"
    /\ handle' = None
    /\ input_val' = None
    /\ app_password' = None
    /\ did' = None
    /\ did_doc' = NoDoc
    /\ pds_host' = None
    /\ client' = NoClient
    /\ user_did' = None
    /\ calls' = <<>>
    /\ records' = <<>>
    /\ UNCHANGED <<dnsAvailable, open_sessions, exit_status>>

\* `break`, then lines 400-401
BreakLoop ==
    /\ pc' = "done"
    /\ exit_status' = ExitStatus("done")
    /\ UNCHANGED <<iter, dnsAvailable, handle, input_val, app_password, did, did_doc,
                   pds_host, client, user_did, calls, records, open_sessions>>

\* main, lines 361-367: after a failed login_flow
TryAnotherHandle ==
    /\ pc = "try_another_handle"
    /\ \E yes \in BOOLEAN : IF yes THEN ContinueLoop ELSE BreakLoop

\* main, lines 369-383: confirm("Are you sure you want to proceed"); an
\* answer that is neither yes nor no asks again.
ConfirmProceed ==
    /\ pc = "confirm_proceed"
    /\ \E ans \in {"y", "n", "?"} :
         IF ans = "?"
         THEN UNCHANGED vars
         ELSE /\ pc' = AfterConfirmProceed(ans = "y")
              /\ calls' = Append(calls, Call("confirm", <<ans>>, <<>>, <<>>))
              /\ UNCHANGED <<iter, dnsAvailable, handle, input_val, app_password, did, did_doc,
                             pds_host, client, user_did, records, open_sessions, exit_status>>

\* main, line 384, follow_self, lines 321-335: an exception of create_record
\* is caught and gives False.
CreateRecord ==
    /\ pc = "create_record"
    /\ \E ok \in BOOLEAN :
         /\ records' = Append(records, FollowPayload(user_did))
         /\ calls' = Append(calls, Call("create_record", user_did, client.base,
                                        IF ok THEN Ok ELSE Failed))
         /\ pc' = AfterCreateRecord(ok)
    /\ UNCHANGED <<iter, dnsAvailable, handle, input_val, app_password, did, did_doc,
                   pds_host, client, user_did, open_sessions, exit_status>>

\* main, lines 374-377 and 390-393: client.logout(); an exception of it is
\* swallowed.
Logout ==
    /\ pc \in {"logout_declined", "logout_written"}
    /\ \E ok \in BOOLEAN :
         calls' = Append(calls, Call("logout", <<>>, client.base, IF ok THEN Ok ELSE Failed))
    /\ open_sessions' = open_sessions - 1
    /\ pc' = AfterLogout(pc)
    /\ UNCHANGED <<iter, dnsAvailable, handle, input_val, app_password, did, did_doc,
                   pds_host, client, user_did, records, exit_status>>

\* main, lines 378-381 and 395-398: confirm("Try another account?") and
\* confirm("Follow another account?")
ConfirmRepeat ==
    /\ pc \in {"try_another_account", "follow_another"}
    /\ \E ans \in {"y", "n", "?"} :
         IF ans = "?" THEN UNCHANGED vars
         ELSE IF ans = "y" THEN ContinueLoop
         ELSE BreakLoop

\* lines 406-408: a keyboard interrupt at any point of main
Interrupt ==
    /\ Running
    /\ pc' = "interrupted"
    /\ exit_status' = ExitStatus("interrupted")
    /\ UNCHANGED <<iter, dnsAvailable, handle, input_val, app_password, did, did_doc,
                   pds_host, client, user_did, calls, records, open_sessions>>

Next ==
    \/ InputHandle
    \/ GetPass
    \/ LoginDefault
    \/ ResolveDns
    \/ ResolveWellKnown
    \/ ResolvePublic
    \/ FetchDidDocument
    \/ LoginPds
    \/ TryAnotherHandle
    \/ ConfirmProceed
    \/ CreateRecord
    \/ Logout
    \/ ConfirmRepeat
    \/ Interrupt

Spec == Init /\ [][Next]_vars

\* ------------------------------------------------------------------------
\* Properties
\* ------------------------------------------------------------------------
ResolutionOps == {"dns", "well_known", "public"}

Rank(op) == IF op = "dns" THEN 1 ELSE IF op = "well_known" THEN 2 ELSE 3

CallsOf(ops) == {i \in 1..Len(calls) : calls[i].op \in ops}

Resolving == pc \in {"resolve_dns", "resolve_well_known", "resolve_public"}

DefaultLoginFailed == calls # <<>> /\ calls[1].op = "login" /\ calls[1].res = Failed

\* resolve_handle_to_did has returned to login_flow
ResolutionReturned ==
    /\ DefaultLoginFailed
    /\ ~StartsWith(input_val, DidPrefix)
    /\ ~Resolving
    /\ pc \notin {"crashed", "interrupted"}

\* C1: the strategies run in the order DNS, well-known, public resolver, none
\* twice and none skipped except DNS when it is unavailable; a strategy runs
\* only if every earlier one gave nothing; the value returned is that of the
\* first strategy that gave a non-empty DID, and no DID when none did.
C1_CascadeOrder ==
    /\ \A i \in CallsOf(ResolutionOps), j \in CallsOf(ResolutionOps) :
         i < j => Rank(calls[i].op) < Rank(calls[j].op) /\ ~Truthy(calls[i].res)
    /\ \A j \in CallsOf({"public"}) : \E i \in CallsOf({"well_known"}) : i < j
    /\ \A j \in CallsOf({"well_known"}) :
         dnsAvailable <=> \E i \in CallsOf({"dns"}) : i < j
    /\ ResolutionReturned =>
         /\ CallsOf(ResolutionOps) # {}
         /\ IF \E i \in CallsOf(ResolutionOps) : Truthy(calls[i].res)
            THEN \E i \in CallsOf(ResolutionOps) :
                    /\ Truthy(calls[i].res)
                    /\ did = calls[i].res
                    /\ \A k \in CallsOf(ResolutionOps) : k <= i
            ELSE /\ ~Truthy(did)
                 /\ CallsOf({"public"}) # {}

\* Only the well-known strategy gave a DID: it is returned and the public
\* resolver was not asked.
C1_Witness ==
    /\ pc = "fetch_did_document"
    /\ \E i \in CallsOf({"dns"}) : ~Truthy(calls[i].res)
    /\ \E i \in CallsOf({"well_known"}) : calls[i].res = DidPlcXyz /\ did = DidPlcXyz
    /\ CallsOf({"public"}) = {}

\* C2: for an input that starts with "did:" no resolution strategy is ever
\* invoked, and after the default-host login failed the DID given to
\* fetch_did_document is the input itself.
C2_DidBypassesResolver ==
    (input_val # None /\ StartsWith(input_val, DidPrefix)) =>
        /\ CallsOf(ResolutionOps) = {}
        /\ ~Resolving
        /\ \A i \in CallsOf({"fetch"}) : calls[i].arg = input_val /\ DefaultLoginFailed
        /\ pc = "fetch_did_document" => did = input_val

C2_Witness ==
    /\ input_val = DidKeyZ
    /\ \E i \in CallsOf({"fetch"}) : calls[i].arg = DidKeyZ

\* The second login attempt of this run of login_flow, if any.
SecondLogins == {j \in CallsOf({"login"}) : j > 1}

\* C3: the attempt against the discovered PDS is made only after the default
\* attempt failed, a non-empty DID was obtained, a document was fetched and a
\* non-empty endpoint was extracted, and it goes to that endpoint; when the
\* DID, the document or the endpoint is missing, login_flow has failed
\* without a second attempt.
C3_NoLoginWithoutHost ==
    /\ (pc = "login_pds" \/ SecondLogins # {}) =>
         /\ DefaultLoginFailed
         /\ Truthy(did)
         /\ DocTruthy(did_doc)
         /\ IsStr(pds_host) /\ pds_host # <<>>
         /\ \E i \in CallsOf({"fetch"}) : calls[i].res = <<"200">>
    /\ \A j \in SecondLogins :
         /\ \E i \in CallsOf({"fetch"}) : i < j
         /\ calls[j].host # None
         /\ StartsWith(calls[j].host, pds_host)
    /\ ( /\ DefaultLoginFailed
         /\ ~Resolving /\ pc # "fetch_did_document"
         /\ ~Truthy(did) \/ ~DocTruthy(did_doc) \/ ~Truthy(pds_host) ) =>
         /\ SecondLogins = {}
         /\ ~client.ok
         /\ pc \in {"try_another_handle", "done", "interrupted", "crashed"}

\* A DID and a document were obtained, the document names no endpoint, and
\* login_flow has failed after its one login attempt.
C3_Witness ==
    /\ pc = "try_another_handle"
    /\ Truthy(did)
    /\ DocTruthy(did_doc)
    /\ ServiceList(did_doc) # <<>>
    /\ ~Truthy(pds_host)
    /\ Cardinality(CallsOf({"login"})) = 1

\* C4: a run of login_flow makes at most two login attempts; the first call
\* is the attempt against the default host; when it succeeds nothing is
\* resolved or fetched and no second attempt is made; a second attempt goes to
\* another host, and when it fails login_flow has failed and nothing follows.
C4_TwoAttempts ==
    /\ Cardinality(CallsOf({"login"})) <= 2
    /\ calls # <<>> => calls[1].op = "login" /\ calls[1].host = None
    /\ (calls # <<>> /\ calls[1].res = Ok) =>
         CallsOf(ResolutionOps \cup {"fetch"}) = {} /\ SecondLogins = {}
    /\ \A j \in SecondLogins :
         /\ calls[j].host # None
         /\ calls[j].res = Failed =>
              /\ j = Len(calls)
              /\ ~client.ok
              /\ pc \in {"try_another_handle", "done", "interrupted"}

C4_Witness ==
    /\ pc = "try_another_handle"
    /\ \E j \in SecondLogins : calls[j].res = Failed

\* C5: when the default attempt failed and the attempt against the resolved
\* host succeeded, the client is bound to the extracted endpoint (its base URL
\* is the endpoint, with /xrpc appended unless it ends so), it logged in with
\* the identifier of the default attempt, and the DID returned is the
\* resolved DID when client.me reports none.
C5_SessionAtResolvedHost ==
    (DefaultLoginFailed /\ \E j \in SecondLogins : calls[j].res = Ok) =>
        /\ client.ok
        /\ client.base \in {pds_host, pds_host \o Xrpc}
        /\ EndsWith(client.base, Xrpc)
        /\ client.identifier = calls[1].arg
        /\ client.me_did = None => user_did = did

C5_Witness ==
    /\ pc = "confirm_proceed"
    /\ DefaultLoginFailed
    /\ client.ok
    /\ client.me_did = None
    /\ client.base = HttpsPIo \o Xrpc
    /\ pds_host = HttpsPIo
    /\ user_did = DidPlcXyz

\* C6: the DID that a successful login_flow returns is the DID the
\* authenticated identity reports (client.me.did, else the "did" of the
\* profile that login returned) when there is one, otherwise the DID that
\* resolution discovered, otherwise the identifier.
C6_DidPreference ==
    (pc = "confirm_proceed" /\ client.ok) =>
        user_did = Or(Or(Or(client.me_did, client.profile_did), did), client.identifier)

\* C7: every record given to create_record has repo = subject, a
\* "did:"-prefixed identifier, and the collection app.bsky.graph.follow.
C7_RecordOwnDid ==
    \A i \in 1..Len(records) :
        /\ records[i].repo = records[i].subject
        /\ records[i].collection = FollowCollection
        /\ StartsWith(records[i].repo, DidPrefix)

\* C8: create_record is called only right after a yes to "Are you sure you
\* want to proceed", with the session that login_flow returned, and at most
\* once in a loop iteration: not after a failed login, not after a no, and
\* not again after it failed.
C8_WriteOncePerConfirmation ==
    /\ Len(records) <= 1
    /\ Cardinality(CallsOf({"create_record"})) = Len(records)
    /\ \A j \in CallsOf({"create_record"}) :
         /\ j > 1
         /\ calls[j - 1] = Call("confirm", <<"y">>, <<>>, <<>>)
         /\ client.ok
         /\ \E i \in CallsOf({"login"}) : i < j /\ calls[i].res = Ok
         /\ calls[j].host = client.base
         /\ calls[j].arg = user_did
    /\ pc = "create_record" =>
         client.ok /\ calls[Len(calls)] = Call("confirm", <<"y">>, <<>>, <<>>)
    /\ (\E i \in CallsOf({"confirm"}) : calls[i].arg = <<"n">>) => records = <<>>
    /\ ~client.ok => records = <<>>

\* The write failed; the flow is at "Follow another account?" with the one
\* submission made.
C8_Witness ==
    /\ pc = "follow_another"
    /\ Len(records) = 1
    /\ \E j \in CallsOf({"create_record"}) : calls[j].res = Failed

C10_NoLeadingAt ==
    \A i \in CallsOf({"login"}) :
        /\ ~StartsWith(calls[i].arg, At)
        /\ StartsWith(calls[i].arg, DidPrefix) \/ Contains(calls[i].arg, ".")
        /\ handle = At \o Alice => calls[i].arg = AliceBsky


\* C11: an input that is no DID and holds no "." gets the suffix .bsky.social
\* exactly once; any other input is left as it is; normalising the normalised
\* value again changes nothing.
C11_SuffixOnceIdempotent ==
    handle # None =>
        /\ (~StartsWith(handle, DidPrefix) /\ ~Contains(handle, ".")) =>
             /\ input_val = handle \o BskySuffix
             /\ Count(input_val, ".") = Count(BskySuffix, ".")
        /\ (StartsWith(handle, DidPrefix) \/ Contains(handle, ".")) => input_val = handle
        /\ NormalizeInput(input_val) = input_val
        /\ maybe_assume_bsky(input_val) = input_val

C11_Witness ==
    /\ handle = Alice
    /\ input_val = AliceBsky
    /\ pc = "login_default"

\* The usable descriptors that match the marker: those whose id matches and
\* whose serviceEndpoint is a non-empty string.
MarkerUrlDescriptors(svc, d) ==
    {i \in 1..Len(svc) : /\ IdMatches(SvcId(svc[i]), d)
                         /\ IsStr(svc[i].serviceEndpoint)
                         /\ svc[i].serviceEndpoint # <<>>}

\* e is ep without its trailing "/"
IsWithoutTrailingSlash(e, ep) ==
    /\ StartsWith(ep, e)
    /\ \A k \in (Len(e) + 1)..Len(ep) : ep[k] = "/"
    /\ ~EndsWith(e, <<"/">>)

\* C12: for a document with a descriptor whose id matches #atproto_pds and
\* whose serviceEndpoint is a URL string, the endpoint extracted is that URL
\* without its trailing "/" (the first such descriptor's); no endpoint
\* extracted ends with "/".
C12_MarkerEndpointStripped ==
    DocTruthy(did_doc) =>
        LET svc == ServiceList(did_doc)
            M   == MarkerUrlDescriptors(svc, did)
        IN  /\ M # {} =>
                 LET first == CHOOSE i \in M : \A j \in M : i <= j
                 IN  IsWithoutTrailingSlash(pds_host, svc[first].serviceEndpoint)
            /\ IsStr(pds_host) => ~EndsWith(pds_host, <<"/">>)

\* The descriptor did:plc:xyz#atproto_pds with endpoint https://p.io/ gives
\* https://p.io.
C12_Witness ==
    /\ did = DidPlcXyz
    /\ did_doc = DocPds
    /\ pds_host = HttpsPIo


\* C13: the process exits with 0 when the loop ends, with 0 on a keyboard
\* interrupt, which can come at any point of the flow, and with 1 when another
\* exception escapes main; it has no other exit status.
C13_ExitStatus ==
    /\ exit_status \in {-1, 0, 1}
    /\ Running <=> exit_status = -1
    /\ Running => ENABLED Interrupt
    /\ pc = "done" => exit_status = 0
    /\ pc = "interrupted" => exit_status = 0
    /\ pc = "crashed" => exit_status = 1

\* An interrupt while a session is open ended the process with status 0.
C13_Witness ==
    /\ pc = "interrupted"
    /\ client.ok
    /\ exit_status = 0

\* C14: after a failed create_record the flow goes on to the logout and to
\* "Follow another account?", and from there around the loop or to the exit
\* with status 0; it never ends with status 1.
C14_SubmissionErrorNotFatal ==
    \A j \in CallsOf({"create_record"}) :
        calls[j].res = Failed =>
            /\ pc \in {"logout_written", "follow_another", "done", "interrupted"}
            /\ exit_status # 1
            /\ pc \in {"follow_another", "done"} => \E k \in CallsOf({"logout"}) : k > j
            /\ pc = "done" => exit_status = 0
            /\ (pc = "follow_another" /\ iter < MaxIter) => ENABLED ContinueLoop

C14_Witness ==
    /\ pc = "done"
    /\ exit_status = 0
    /\ \E j \in CallsOf({"create_record"}) : calls[j].res = Failed


Https == <<"h", "t", "t", "p", "s", ":", "/", "/">>

\* The descriptors whose id matches the marker
MarkerIdDescriptors(svc, d) == {i \in 1..Len(svc) : IdMatches(SvcId(svc[i]), d)}

\* The descriptors whose id matches the marker and whose endpoint is a
\* non-empty string
MarkerUsableDescriptors(svc, d) ==
    {i \in MarkerIdDescriptors(svc, d) :
        IsStr(MarkerEndpoint(svc[i])) /\ MarkerEndpoint(svc[i]) # <<>>}

\* The descriptors whose endpoint is a string that starts with "http"
HttpDescriptors(svc) ==
    {i \in 1..Len(svc) :
        IsStr(FallbackEndpoint(svc[i])) /\ StartsWith(FallbackEndpoint(svc[i]), Http)}

First(S) == CHOOSE i \in S : \A j \in S : i <= j

\* C15, as claimed: when a descriptor matches the marker by id, the endpoint
\* of such a descriptor is returned; only when none matches by id, that of the
\* first descriptor with an http endpoint; nothing is found exactly when there
\* is no service list or no descriptor satisfies either rule.
C15_IdMatchAlwaysPreferred ==
    DocTruthy(did_doc) =>
        LET svc == ServiceList(did_doc)
            M   == MarkerIdDescriptors(svc, did)
            H   == HttpDescriptors(svc)
        IN  /\ M # {} =>
                 \E i \in M : /\ IsStr(MarkerEndpoint(svc[i]))
                              /\ IsWithoutTrailingSlash(pds_host, MarkerEndpoint(svc[i]))
            /\ (M = {} /\ H # {}) =>
                 IsWithoutTrailingSlash(pds_host, FallbackEndpoint(svc[First(H)]))
            /\ pds_host = None <=> (svc = <<>> \/ (M = {} /\ H = {}))

\* C15, amended: the first descriptor that matches the marker by id and has a
\* non-empty string endpoint is preferred, wherever it stands in the list;
\* only when there is none, the first descriptor with an http endpoint is
\* taken; nothing is found exactly when there is no service list or no
\* descriptor satisfies either rule.
C15_UsableMarkerPreferred ==
    DocTruthy(did_doc) =>
        LET svc == ServiceList(did_doc)
            U   == MarkerUsableDescriptors(svc, did)
            H   == HttpDescriptors(svc)
        IN  /\ U # {} =>
                 IsWithoutTrailingSlash(pds_host, MarkerEndpoint(svc[First(U)]))
            /\ (U = {} /\ H # {}) =>
                 IsWithoutTrailingSlash(pds_host, FallbackEndpoint(svc[First(H)]))
            /\ pds_host = None <=> (svc = <<>> \/ (U = {} /\ H = {}))

\* The marker descriptor stands after a descriptor with an http endpoint and
\* is the one taken.
C15_Witness ==
    /\ did_doc = DocPds
    /\ pds_host = HttpsPIo
    /\ pc = "login_pds"

\* C16: every endpoint extracted, and the host of every login at a discovered
\* PDS, is a non-empty string that starts with https://.
C16_HttpsEndpoint ==
    /\ pds_host # None => IsStr(pds_host) /\ StartsWith(pds_host, Https)
    /\ \A j \in SecondLogins : StartsWith(calls[j].host, Https)

\* C17: no resolution strategy raises; resolve_handle_to_did returns to
\* login_flow with a DID or with none.
C17_NoExceptionEscapes ==
    /\ \A i \in CallsOf(ResolutionOps) : calls[i].res # IndexError
    /\ (CallsOf(ResolutionOps) # {} /\ ~Resolving) => pc # "crashed"

\* C18: with an empty handle or an empty password no login, resolution or
\* fetch is made, and the flow is at a prompt (or has ended with status 0),
\* not ended by an error.
C18_EmptyInputNoNetwork ==
    /\ calls # <<>> =>
         /\ handle # None /\ Strip(handle) # <<>>
         /\ app_password # None /\ app_password # <<>>
    /\ pc = "input_handle" => calls = <<>>
    /\ app_password = <<>> =>
         /\ calls = <<>>
         /\ pc \in {"try_another_handle", "done", "interrupted"}
         /\ exit_status # 1

\* The password was empty: the flow is at "Try another handle?".
C18_Witness ==
    /\ pc = "try_another_handle"
    /\ app_password = <<>>
    /\ exit_status = -1

\* C19: fetch_did_document goes to the branch of the method prefix; a
\* response other than 200 gives no document and no exception; a 200 gives a
\* document, in the universal-resolver branch too, wrapped or not.
C19_FetchGivesDocument ==
    \A i \in CallsOf({"fetch"}) :
        /\ calls[i].host = <<"web">> <=> StartsWith(calls[i].arg, DidWebPrefix)
        /\ calls[i].host = <<"plc">> <=>
             (~StartsWith(calls[i].arg, DidWebPrefix) /\ StartsWith(calls[i].arg, DidPlcPrefix))
        /\ calls[i].res # <<"200">> => (did_doc = NoDoc /\ pc # "crashed")
        /\ calls[i].res = <<"200">> => did_doc.py = "dict"

\* C20: a run of login_flow asks each resolution strategy at most once,
\* fetches at most one document, logs in at most twice, and ends by returning
\* a session or a failure, never by an exception.
C20_LoginFlowReturns ==
    /\ \A op \in ResolutionOps \cup {"fetch"} : Cardinality(CallsOf({op})) <= 1
    /\ Cardinality(CallsOf({"login"})) <= 2
    /\ pc # "crashed"

====
